---- MODULE Spec2Model ----
(***************************************************************************)
(* A model of src/c_regex/regex.c: the regex demonstration harness.        *)
(*                                                                         *)
(* Strings are sequences of one-character strings.  A C pointer is <<>>    *)
(* (NULL) or <<v>> (a pointer to v).  regcomp and regexec belong to the    *)
(* system library: the model draws their return codes nondeterministically.*)
(* Three specifications share the module: SpecRead runs read_lines,        *)
(* SpecParse runs parse_test_cases, Spec runs main.                        *)
(***************************************************************************)
EXTENDS Integers, Sequences, FiniteSets, TLC

\* ------------------------------------------------------------------ bounds
MaxReadLines == 11    \* lines in a file given to read_lines (SpecRead)
MaxParseLines == 2    \* lines given to parse_test_cases (SpecParse)
MaxPatterns == 2      \* lines of pattern.txt (Spec)
MaxTests == 2         \* lines of test.txt (Spec)

\* ------------------------------------------------------- program constants
LINE_BUF_SIZE == 1024
InitialCap == 10
REG_NOMATCH == 1
REG_ESPACE == 12

\* --------------------------------------------------------------- pointers
Null == <<>>
Ptr(v) == <<v>>
Deref(p) == p[1]

Min(a, b) == IF a < b THEN a ELSE b

\* --------------------------------------------------------------- strings
NL == "\n"
SP == " "

RECURSIVE Concat(_)
Concat(ss) == IF ss = <<>> THEN <<>> ELSE Head(ss) \o Concat(Tail(ss))

\* Sequences over S of length 0..n.
SeqUpTo(S, n) == UNION {[1..k -> S] : k \in 0..n}

\* The text files whose lines are drawn from L, at most n of them: every
\* line newline-terminated, or every line but the last.
Terminated(ls) == Concat([k \in 1..Len(ls) |-> ls[k] \o <<NL>>])
Unterminated(ls) == SubSeq(Terminated(ls), 1, Len(Terminated(ls)) - 1)
FilesOf(L, n) ==
    {Terminated(ls) : ls \in SeqUpTo(L, n)}
        \cup {Unterminated(ls) : ls \in (SeqUpTo(L, n) \ {<<>>})}

\* ------------------------------------------------------------ read_lines
\* fgets(buf, LINE_BUF_SIZE, f) at offset pos (1-based): NULL at end of
\* file, else the characters up to and including the next newline, at most
\* LINE_BUF_SIZE-1 of them.
Fgets(file, pos) ==
    IF pos > Len(file) THEN Null
    ELSE LET rest == SubSeq(file, pos, Len(file))
             nls == {k \in 1..Len(rest) : rest[k] = NL}
             upto == IF nls = {} THEN Len(rest)
                     ELSE CHOOSE k \in nls : \A j \in nls : k <= j
         IN Ptr(SubSeq(rest, 1, Min(upto, LINE_BUF_SIZE - 1)))

\* len = strlen(buf); strncpy(lines[i], buf, len-1); lines[i][len-1] = '\0'
StoreLine(buf) == SubSeq(buf, 1, Len(buf) - 1)

\* if (i == cap) new_cap = cap * 2
GrowCap(i, cap) == IF i = cap THEN cap * 2 ELSE cap

\* The whole reading loop with every allocation succeeding.
RECURSIVE ReadLoop(_, _, _)
ReadLoop(file, pos, acc) ==
    LET b == Fgets(file, pos)
    IN IF b = Null THEN acc
       ELSE ReadLoop(file, pos + Len(Deref(b)), Append(acc, StoreLine(Deref(b))))

ReadLinesOk(file) == ReadLoop(file, 1, <<>>)

\* ------------------------------------------------------ parse_test_cases
\* strtok over line s with the single delimiter " ", resuming at pos: skip
\* delimiters, return the token up to the next delimiter (NULL when the
\* line is exhausted) and the position the next call resumes at.
Strtok(s, pos) ==
    LET starts == {k \in pos..Len(s) : s[k] # SP}
    IN IF starts = {} THEN [tok |-> Null, next |-> Len(s) + 1]
       ELSE LET b == CHOOSE k \in starts : \A j \in starts : k <= j
                ends == {k \in b..Len(s) : s[k] = SP}
                e == IF ends = {} THEN Len(s) + 1
                     ELSE CHOOSE k \in ends : \A j \in ends : k <= j
            IN [tok |-> Ptr(SubSeq(s, b, e - 1)), next |-> Min(e + 1, Len(s) + 1)]

DigitChars == <<"0", "1", "2", "3", "4", "5", "6", "7", "8", "9">>
IsDigit(c) == \E k \in 1..10 : DigitChars[k] = c
DigitVal(c) == (CHOOSE k \in 1..10 : DigitChars[k] = c) - 1

RECURSIVE AtoiDigits(_, _, _)
AtoiDigits(s, k, acc) ==
    IF k > Len(s) \/ ~IsDigit(s[k]) THEN acc
    ELSE AtoiDigits(s, k + 1, acc * 10 + DigitVal(s[k]))

\* atoi: an optional sign, then the leading decimal digits; 0 when there
\* are none.  (Tokens hold no white space: strtok split on it.)
Atoi(s) ==
    IF s # <<>> /\ s[1] = "-" THEN 0 - AtoiDigits(s, 2, 0)
    ELSE IF s # <<>> /\ s[1] = "+" THEN AtoiDigits(s, 2, 0)
    ELSE AtoiDigits(s, 1, 0)

\* What atoi(NULL) and strdup(NULL) hand back when they do not trap.
GarbageInts == {-1, 0, 3}
GarbageStr == <<"?">>

\* Lines 113-119 on one line: the three strtok calls and their uses.  ub
\* says a NULL token was handed to atoi or strdup; g1 and g3 are what atoi
\* of NULL then yields.
ParseLine(line, g1, g3) ==
    LET r1 == Strtok(line, 1)
        r2 == Strtok(line, r1.next)
        r3 == Strtok(line, r2.next)
    IN [regex_idx |-> IF r1.tok = Null THEN g1 ELSE Atoi(Deref(r1.tok)),
        str |-> IF r2.tok = Null THEN GarbageStr ELSE Deref(r2.tok),
        isMatch |-> IF r3.tok = Null THEN g3 ELSE Atoi(Deref(r3.tok)),
        ub |-> (r1.tok = Null \/ r2.tok = Null \/ r3.tok = Null)]

\* ------------------------------------------------------------------ state
VARIABLES
    \* read_lines (SpecRead)
    rl_pc,        \* "open" | "loop" | "returned"
    rl_file,      \* the file's content
    rl_pos,       \* the stream position, 1-based
    rl_i,         \* int i
    rl_cap,       \* int cap
    rl_lines,     \* lines[0..i-1]
    rl_ret,       \* the returned char **: Null or Ptr(lines)
    rl_size,      \* *size
    rl_oob,       \* a line was stored at an index >= cap
    \* parse_test_cases (SpecParse)
    pt_pc,        \* "alloc" | "loop" | "returned" | "crashed"
    pt_lines,     \* char **lines
    pt_i,         \* int i
    pt_rs,        \* rs[0..i-1]
    pt_ret,       \* the returned struct TestCase **: Null or Ptr(rs)
    pt_nullRead,  \* atoi or strdup was handed a NULL token
    \* main (Spec)
    pc,           \* where main is
    patternFile,  \* the content of pattern.txt
    testFile,     \* the content of test.txt
    retcode, p_size, t_size, regcomp_cnt,
    patterns,     \* char **patterns: Null or Ptr(lines)
    test_lines,   \* char **test_lines
    regexs,       \* regex_t *regexs: Null or Ptr(the state of each slot)
    tests,        \* struct TestCase **tests: Null or Ptr(triples)
    i,            \* the running loop's int i
    reports,      \* the lines printed by the execute loop, in order
    regcompLog,   \* the slot indices handed to regcomp, in order
    regcompFailed, \* some regcomp call returned non-zero
    regfreeLog,   \* the slot indices handed to regfree, in order
    allocd,       \* the heap blocks main owns or owned
    freeLog,      \* the heap blocks handed to free, in order
    ubSeen        \* main has executed undefined behaviour

readVars == <<rl_pc, rl_file, rl_pos, rl_i, rl_cap, rl_lines, rl_ret, rl_size, rl_oob>>

parseVars == <<pt_pc, pt_lines, pt_i, pt_rs, pt_ret, pt_nullRead>>

mainVars == <<pc, patternFile, testFile, retcode, p_size, t_size, regcomp_cnt,
              patterns, test_lines, regexs, tests, i, reports, regcompLog,
              regcompFailed, regfreeLog, allocd, freeLog, ubSeen>>

vars == <<readVars, parseVars, mainVars>>

\* ------------------------------------------------- read_lines, step by step
ReadLineChoices == {<<>>, <<"a", "b">>}
ReadFiles == FilesOf(ReadLineChoices, MaxReadLines)

MainIdle ==
    /\ pc = "idle" /\ patternFile = <<>> /\ testFile = <<>> /\ retcode = 0
    /\ p_size = 0 /\ t_size = 0 /\ regcomp_cnt = 0 /\ patterns = Null
    /\ test_lines = Null /\ regexs = Null /\ tests = Null /\ i = 0
    /\ reports = <<>> /\ regcompLog = <<>> /\ regcompFailed = FALSE
    /\ regfreeLog = <<>> /\ allocd = {} /\ freeLog = <<>> /\ ubSeen = FALSE

ParseIdle ==
    /\ pt_pc = "idle" /\ pt_lines = <<>> /\ pt_i = 0 /\ pt_rs = <<>>
    /\ pt_ret = Null /\ pt_nullRead = FALSE

ReadIdle ==
    /\ rl_pc = "idle" /\ rl_file = <<>> /\ rl_pos = 1 /\ rl_i = 0 /\ rl_cap = 0
    /\ rl_lines = <<>> /\ rl_ret = Null /\ rl_size = 0 /\ rl_oob = FALSE

InitRead ==
    /\ rl_file \in ReadFiles
    /\ rl_pc = "open" /\ rl_pos = 1 /\ rl_i = 0 /\ rl_cap = 0
    /\ rl_lines = <<>> /\ rl_ret = Null /\ rl_size = 0 /\ rl_oob = FALSE
    /\ ParseIdle /\ MainIdle

\* error: free_lines(lines, i); if (f) fclose(f); *size = 0; return NULL;
RL_Fail ==
    /\ rl_pc' = "returned" /\ rl_ret' = Null /\ rl_size' = 0 /\ rl_lines' = <<>>
    /\ UNCHANGED <<rl_file, rl_pos, rl_i, rl_cap, rl_oob>>

\* fopen, then lines = malloc(cap * sizeof(char *)) with cap = 10.
RL_Open ==
    /\ rl_pc = "open"
    /\ UNCHANGED <<parseVars, mainVars>>
    /\ \E fopenOk \in BOOLEAN, mallocOk \in BOOLEAN :
         IF fopenOk /\ mallocOk
         THEN /\ rl_pc' = "loop" /\ rl_cap' = InitialCap
              /\ UNCHANGED <<rl_file, rl_pos, rl_i, rl_lines, rl_ret, rl_size, rl_oob>>
         ELSE RL_Fail

\* One iteration of while (fgets(...) != NULL): grow when i == cap, allocate
\* the line, copy len-1 characters, i++.
RL_Iter ==
    /\ rl_pc = "loop"
    /\ UNCHANGED <<parseVars, mainVars>>
    /\ Fgets(rl_file, rl_pos) # Null
    /\ \E reallocOk \in BOOLEAN, mallocOk \in BOOLEAN :
         LET buf == Deref(Fgets(rl_file, rl_pos))
             cap2 == GrowCap(rl_i, rl_cap)
         IN IF (rl_i = rl_cap /\ ~reallocOk) \/ ~mallocOk
            THEN /\ rl_pc' = "returned" /\ rl_ret' = Null /\ rl_size' = 0
                 /\ rl_lines' = <<>> /\ rl_pos' = rl_pos + Len(buf)
                 /\ UNCHANGED <<rl_file, rl_i, rl_cap, rl_oob>>
            ELSE /\ rl_cap' = cap2
                 /\ rl_oob' = (rl_oob \/ rl_i >= cap2)
                 /\ rl_lines' = Append(rl_lines, StoreLine(buf))
                 /\ rl_i' = rl_i + 1
                 /\ rl_pos' = rl_pos + Len(buf)
                 /\ UNCHANGED <<rl_pc, rl_file, rl_ret, rl_size>>

\* fgets returned NULL: fclose(f); *size = i; return lines;
RL_Return ==
    /\ rl_pc = "loop"
    /\ UNCHANGED <<parseVars, mainVars>>
    /\ Fgets(rl_file, rl_pos) = Null
    /\ rl_pc' = "returned" /\ rl_size' = rl_i /\ rl_ret' = Ptr(rl_lines)
    /\ UNCHANGED <<rl_file, rl_pos, rl_i, rl_cap, rl_lines, rl_oob>>

NextRead == RL_Open \/ RL_Iter \/ RL_Return

SpecRead == InitRead /\ [][NextRead]_vars

\* ------------------------------------------- parse_test_cases, step by step
ParseLineChoices ==
    { <<"0", SP, "a", SP, "1">>,
      <<"1", SP, "b", SP, "0">>,
      <<"-", "1", SP, "a", SP, "1">>,
      <<"x", SP, "a", SP, "0">>,
      <<"1", "2", SP, SP, "a", "b", SP, "1", "x">>,
      <<"0", SP, "a">>,
      <<"0">>,
      <<>> }

InitParse ==
    /\ pt_lines \in SeqUpTo(ParseLineChoices, MaxParseLines)
    /\ pt_pc = "alloc" /\ pt_i = 0 /\ pt_rs = <<>> /\ pt_ret = Null
    /\ pt_nullRead = FALSE
    /\ ReadIdle /\ MainIdle

\* rs = malloc(sizeof(struct TestCase*) * size); check_mem(rs).  malloc(0)
\* may return NULL or a pointer.
PT_Alloc ==
    /\ pt_pc = "alloc"
    /\ \E mallocOk \in BOOLEAN :
         IF mallocOk
         THEN pt_pc' = "loop" /\ UNCHANGED pt_ret
         ELSE pt_pc' = "returned" /\ pt_ret' = Null
    /\ UNCHANGED <<pt_lines, pt_i, pt_rs, pt_nullRead, readVars, mainVars>>

\* One iteration of while (i < size).  A failed malloc or strdup goes to
\* error: free_test_cases(rs, i); return NULL.  A NULL token handed to atoi
\* or strdup is undefined behaviour: the process traps, or goes on with a
\* garbage value.
PT_Iter ==
    /\ pt_pc = "loop"
    /\ pt_i < Len(pt_lines)
    /\ \E mallocOk \in BOOLEAN, strdupOk \in BOOLEAN, traps \in BOOLEAN,
          g1 \in GarbageInts, g3 \in GarbageInts :
         LET t == ParseLine(pt_lines[pt_i + 1], g1, g3)
         IN IF ~mallocOk
            THEN /\ pt_pc' = "returned" /\ pt_ret' = Null /\ pt_rs' = <<>>
                 /\ UNCHANGED <<pt_i, pt_nullRead>>
            ELSE IF t.ub /\ traps
            THEN /\ pt_pc' = "crashed" /\ pt_nullRead' = TRUE /\ pt_i' = pt_i + 1
                 /\ UNCHANGED <<pt_rs, pt_ret>>
            ELSE IF ~strdupOk
            THEN /\ pt_pc' = "returned" /\ pt_ret' = Null /\ pt_rs' = <<>>
                 /\ pt_i' = pt_i + 1 /\ pt_nullRead' = (pt_nullRead \/ t.ub)
            ELSE /\ pt_rs' = Append(pt_rs, [regex_idx |-> t.regex_idx, str |-> t.str,
                                            isMatch |-> t.isMatch])
                 /\ pt_i' = pt_i + 1 /\ pt_nullRead' = (pt_nullRead \/ t.ub)
                 /\ UNCHANGED <<pt_pc, pt_ret>>
    /\ UNCHANGED <<pt_lines, readVars, mainVars>>

\* i == size: return rs;
PT_Return ==
    /\ pt_pc = "loop"
    /\ pt_i >= Len(pt_lines)
    /\ pt_pc' = "returned" /\ pt_ret' = Ptr(pt_rs)
    /\ UNCHANGED <<pt_lines, pt_i, pt_rs, pt_nullRead, readVars, mainVars>>

NextParse == PT_Alloc \/ PT_Iter \/ PT_Return

SpecParse == InitParse /\ [][NextParse]_vars

\* -------------------------------------------------------------------- main
PatternLineChoices == {<<"a">>}
TestLineChoices ==
    { <<"0", SP, "a", SP, "1">>,
      <<"0", SP, "b", SP, "0">>,
      <<"1", SP, "a", SP, "1">>,
      <<"2", SP, "a", SP, "0">>,
      <<"-", "1", SP, "a", SP, "1">>,
      <<"0", SP, "a">> }

\* What the library calls return: regcomp 0 or an error code; regexec 0,
\* REG_NOMATCH, or an error code (REG_ESPACE).
RegcompCodes == {0, REG_ESPACE}
RegexecCodes == {0, REG_NOMATCH, REG_ESPACE}

\* int retcode = 1;
InitRetcode == 1

\* Fault variant: the assignment after the loop is missing.
RetcodeDone_Stale == InitRetcode
\* retcode = 0; after the execute loop
RetcodeDone == 0

\* The heap blocks of an array of n elements: <<tag, k>> for element k.
Blocks(tag, n) == {<<tag, k>> : k \in 0..(n - 1)}
BlockSeq(tag, n) == [k \in 1..n |-> <<tag, k - 1>>]

\* free_lines(lines, n): free(lines[i]) for i < n, then free(lines).
FreeLines(p, tag, arr, n) ==
    IF p = Null THEN <<>> ELSE BlockSeq(tag, n) \o <<<<arr, 0>>>>

\* free_test_cases(tests, n): per triple free(str) if set, free(tests[i]);
\* then free(tests).
FreeTestCases(p, n) ==
    IF p = Null THEN <<>>
    ELSE Concat([k \in 1..n |-> <<<<"tstr", k - 1>>, <<"test", k - 1>>>>])
             \o <<<<"tests", 0>>>>

Init ==
    /\ patternFile \in FilesOf(PatternLineChoices, MaxPatterns)
    /\ testFile \in FilesOf(TestLineChoices, MaxTests)
    /\ pc = "read_patterns" /\ retcode = InitRetcode
    /\ p_size = 0 /\ t_size = 0 /\ regcomp_cnt = 0 /\ patterns = Null
    /\ test_lines = Null /\ regexs = Null /\ tests = Null /\ i = 0
    /\ reports = <<>> /\ regcompLog = <<>> /\ regcompFailed = FALSE
    /\ regfreeLog = <<>> /\ allocd = {} /\ freeLog = <<>> /\ ubSeen = FALSE
    /\ ReadIdle /\ ParseIdle

\* patterns = read_lines("pattern.txt", &p_size); if (!patterns) goto error;
\* read_lines returns NULL (everything it allocated freed, *size = 0) when
\* fopen or an allocation fails.
ReadPatterns ==
    /\ pc = "read_patterns"
    /\ \E ok \in BOOLEAN :
         IF ok
         THEN LET ls == ReadLinesOk(patternFile)
              IN /\ patterns' = Ptr(ls) /\ p_size' = Len(ls)
                 /\ allocd' = allocd \cup {<<"patterns", 0>>} \cup Blocks("pline", Len(ls))
                 /\ pc' = "alloc_regexs"
         ELSE /\ patterns' = Null /\ p_size' = 0 /\ pc' = "error"
              /\ UNCHANGED allocd
    /\ UNCHANGED <<patternFile, testFile, retcode, t_size, regcomp_cnt, test_lines,
                   regexs, tests, i, reports, regcompLog, regcompFailed, regfreeLog,
                   freeLog, readVars, parseVars, ubSeen>>

\* regexs = malloc(sizeof(regex_t) * p_size); check_mem(regexs);
\* (malloc(0) may return NULL.)  Then the for loop starts at i = 0.
AllocRegexs ==
    /\ pc = "alloc_regexs"
    /\ \E ok \in BOOLEAN :
         IF ok
         THEN /\ regexs' = Ptr([k \in 1..p_size |-> "raw"])
              /\ allocd' = allocd \cup {<<"regexs", 0>>}
              /\ pc' = "compile" /\ i' = 0
         ELSE /\ pc' = "error" /\ UNCHANGED <<regexs, allocd, i>>
    /\ UNCHANGED <<patternFile, testFile, retcode, p_size, t_size, regcomp_cnt,
                   patterns, test_lines, tests, reports, regcompLog, regcompFailed,
                   regfreeLog, freeLog, readVars, parseVars, ubSeen>>

\* Fault variants: the failure is ignored; the failure leaves the loop
\* without reaching error:.
OnCompileResult_KeepGoing(reti) == "compile"
OnCompileResult_Break(reti) == IF reti # 0 THEN "read_tests" ELSE "compile"
\* if (reti) { ...; regcomp_cnt = i; goto error; } else the loop goes on
OnCompileResult(reti) == IF reti # 0 THEN "error" ELSE "compile"

\* One iteration of the compile loop: regcomp(&regexs[i], patterns[i], ...).
Compile ==
    /\ pc = "compile"
    /\ i < p_size
    /\ \E reti \in RegcompCodes :
         /\ regcompLog' = Append(regcompLog, i)
         /\ regcompFailed' = (regcompFailed \/ reti # 0)
         /\ regexs' = Ptr([Deref(regexs) EXCEPT ![i + 1] =
                              IF reti = 0 THEN "compiled" ELSE "failed"])
         /\ pc' = OnCompileResult(reti)
         /\ regcomp_cnt' = IF reti # 0 THEN i ELSE regcomp_cnt
         /\ i' = IF OnCompileResult(reti) = "compile" THEN i + 1 ELSE i
    /\ UNCHANGED <<patternFile, testFile, retcode, p_size, t_size, patterns,
                   test_lines, tests, reports, regfreeLog, allocd, freeLog,
                   readVars, parseVars, ubSeen>>

\* i == p_size: the compile loop ends.
CompileDone ==
    /\ pc = "compile"
    /\ i >= p_size
    /\ pc' = "read_tests"
    /\ UNCHANGED <<patternFile, testFile, retcode, p_size, t_size, regcomp_cnt,
                   patterns, test_lines, regexs, tests, i, reports, regcompLog,
                   regcompFailed, regfreeLog, allocd, freeLog, readVars, parseVars, ubSeen>>

\* test_lines = read_lines("test.txt", &t_size); if (!test_lines) goto error;
ReadTests ==
    /\ pc = "read_tests"
    /\ \E ok \in BOOLEAN :
         IF ok
         THEN LET ls == ReadLinesOk(testFile)
              IN /\ test_lines' = Ptr(ls) /\ t_size' = Len(ls)
                 /\ allocd' = allocd \cup {<<"test_lines", 0>>} \cup Blocks("tline", Len(ls))
                 /\ pc' = "parse"
         ELSE /\ test_lines' = Null /\ t_size' = 0 /\ pc' = "error"
              /\ UNCHANGED allocd
    /\ UNCHANGED <<patternFile, testFile, retcode, p_size, regcomp_cnt, patterns,
                   regexs, tests, i, reports, regcompLog, regcompFailed, regfreeLog,
                   freeLog, readVars, parseVars, ubSeen>>

\* tests = parse_test_cases(test_lines, t_size); if (!tests) goto error;
\* NULL when an allocation fails (what it allocated is freed).  A line with
\* fewer than three tokens hands NULL to atoi or strdup: the process traps
\* or goes on with garbage values (one pair g1, g3 for the call).  Then the execute loop starts at i = 0.
ParseTests ==
    /\ pc = "parse"
    /\ \E ok \in BOOLEAN, traps \in BOOLEAN, g1 \in GarbageInts, g3 \in GarbageInts :
         LET ls == Deref(test_lines)
             ts == [k \in 1..Len(ls) |-> ParseLine(ls[k], g1, g3)]
             ub == \E k \in 1..Len(ls) : ts[k].ub
         IN IF ~ok
            THEN pc' = "error" /\ UNCHANGED <<tests, allocd, i, ubSeen>>
            ELSE IF ub /\ traps
            THEN pc' = "crashed" /\ ubSeen' = TRUE /\ UNCHANGED <<tests, allocd, i>>
            ELSE /\ ubSeen' = (ubSeen \/ ub)
                 /\ tests' = Ptr([k \in 1..Len(ls) |->
                                    [regex_idx |-> ts[k].regex_idx, str |-> ts[k].str,
                                     isMatch |-> ts[k].isMatch]])
                 /\ allocd' = allocd \cup {<<"tests", 0>>} \cup Blocks("test", Len(ls))
                                  \cup Blocks("tstr", Len(ls))
                 /\ pc' = "exec" /\ i' = 0
    /\ UNCHANGED <<patternFile, testFile, retcode, p_size, t_size, regcomp_cnt,
                   patterns, test_lines, regexs, reports, regcompLog, regcompFailed,
                   regfreeLog, freeLog, readVars, parseVars>>

\* (t->isMatch && reti == 0) || (!t->isMatch && reti)
ReportState(isMatch, reti) ==
    IF (isMatch # 0 /\ reti = 0) \/ (isMatch = 0 /\ reti # 0)
    THEN "Success" ELSE "Failed"

\* One iteration of the execute loop.  regexs[t->regex_idx] with an index
\* outside 0..p_size-1 reads outside the array: the process traps, or
\* regexec returns whatever it makes of the bytes there.
Exec ==
    /\ pc = "exec"
    /\ i < t_size
    /\ \E reti \in RegexecCodes, traps \in BOOLEAN :
         LET t == Deref(tests)[i + 1]
             inRange == 0 <= t.regex_idx /\ t.regex_idx < p_size
         IN IF ~inRange /\ traps
            THEN pc' = "crashed" /\ ubSeen' = TRUE /\ UNCHANGED <<reports, i>>
            ELSE /\ ubSeen' = (ubSeen \/ ~inRange)
                 /\ reports' = Append(reports,
                        [k |-> i, state |-> ReportState(t.isMatch, reti),
                         regex_idx |-> t.regex_idx, str |-> t.str,
                         isMatch |-> t.isMatch, reti |-> reti, inRange |-> inRange])
                 /\ i' = i + 1
                 /\ UNCHANGED pc
    /\ UNCHANGED <<patternFile, testFile, retcode, p_size, t_size, regcomp_cnt,
                   patterns, test_lines, regexs, tests, regcompLog, regcompFailed,
                   regfreeLog, allocd, freeLog, readVars, parseVars>>

\* i == t_size: the execute loop ends; retcode = 0; control reaches error:.
ExecDone ==
    /\ pc = "exec"
    /\ i >= t_size
    /\ retcode' = RetcodeDone
    /\ pc' = "error"
    /\ UNCHANGED <<patternFile, testFile, p_size, t_size, regcomp_cnt, patterns,
                   test_lines, regexs, tests, i, reports, regcompLog, regcompFailed,
                   regfreeLog, allocd, freeLog, readVars, parseVars, ubSeen>>

\* error: the cleanup, then return retcode.
Cleanup ==
    /\ pc = "error"
    /\ regfreeLog' = IF regexs = Null THEN regfreeLog
                     ELSE regfreeLog \o [k \in 1..regcomp_cnt |-> k - 1]
    /\ freeLog' = freeLog
                    \o (IF regexs = Null THEN <<>> ELSE <<<<"regexs", 0>>>>)
                    \o FreeLines(patterns, "pline", "patterns", p_size)
                    \o FreeLines(test_lines, "tline", "test_lines", t_size)
                    \o FreeTestCases(tests, t_size)
    /\ pc' = "done"
    /\ UNCHANGED <<patternFile, testFile, retcode, p_size, t_size, regcomp_cnt,
                   patterns, test_lines, regexs, tests, i, reports, regcompLog,
                   regcompFailed, allocd, readVars, parseVars, ubSeen>>

Next ==
    \/ ReadPatterns \/ AllocRegexs \/ Compile \/ CompileDone
    \/ ReadTests \/ ParseTests \/ Exec \/ ExecDone \/ Cleanup

Spec == Init /\ [][Next]_vars

\* ------------------------------------------------------------------ claims
Count(log, x) == Cardinality({k \in 1..Len(log) : log[k] = x})
Range(log) == {log[k] : k \in 1..Len(log)}
Slots == IF regexs = Null THEN <<>> ELSE Deref(regexs)
CompiledSlots == {k \in 0..(Len(Slots) - 1) : Slots[k + 1] = "compiled"}

C2_MatchErrorNeverSuccess ==
    \A k \in 1..Len(reports) :
        (~ubSeen /\ reports[k].isMatch = 0
            /\ reports[k].reti \notin {0, REG_NOMATCH})
        => reports[k].state # "Success"

\* C3, as claimed: a run that completes the execute loop has printed one
\* report per triple, in input order, and a report is Success exactly when
\* expected is non-zero and regexec returned 0, or expected is zero and
\* regexec returned REG_NOMATCH.  (Stated for runs free of undefined
\* behaviour.)
C3_OneReportPerTripleAgreeing ==
    (pc = "done" /\ tests # Null /\ ~ubSeen) =>
        /\ Len(reports) = t_size
        /\ \A k \in 1..Len(reports) :
             LET r == reports[k]
                 t == Deref(tests)[k]
             IN /\ r.k = k - 1
                /\ r.regex_idx = t.regex_idx /\ r.str = t.str /\ r.isMatch = t.isMatch
                /\ r.state \in {"Success", "Failed"}
                /\ r.state = "Success" <=>
                       \/ (t.isMatch # 0 /\ r.reti = 0)
                       \/ (t.isMatch = 0 /\ r.reti = REG_NOMATCH)

\* C4: compile once, exec many.  No pattern is passed to regcomp twice and
\* pattern i goes to slot i; once a regexec has been issued (or is about to
\* be) every pattern has been compiled, once and successfully; after a
\* failed compile no triple is executed; and while the execute loop runs no
\* step recompiles, frees or changes a slot.
C4_State ==
    /\ \A k \in 1..Len(regcompLog) : regcompLog[k] = k - 1
    /\ (pc = "exec" \/ reports # <<>>) =>
          /\ ~regcompFailed
          /\ Len(regcompLog) = p_size
          /\ CompiledSlots = 0..(p_size - 1)
    /\ regcompFailed => reports = <<>>
    /\ (pc = "exec") => regfreeLog = <<>> /\ freeLog = <<>>

C4_Step ==
    (pc = "exec") =>
        /\ regexs' = regexs
        /\ regcompLog' = regcompLog
        /\ regfreeLog' = regfreeLog
        /\ patterns' = patterns

RECURSIVE SplitLines(_)
SplitLines(f) ==
    IF f = <<>> THEN <<>>
    ELSE LET nls == {k \in 1..Len(f) : f[k] = NL}
         IN IF nls = {} THEN <<f>>
            ELSE LET k == CHOOSE x \in nls : \A y \in nls : x <= y
                 IN <<SubSeq(f, 1, k - 1)>> \o SplitLines(SubSeq(f, k + 1, Len(f)))

\* C5, as claimed: when read_lines returns an array, it holds the file's
\* lines in order, each without its terminator, *size is their number, and
\* every line was stored at an index below cap; whether or not the last
\* line ends with a newline.
C5_ReadLinesReturnsEveryLine ==
    (rl_pc = "returned" /\ rl_ret # Null) =>
        /\ Deref(rl_ret) = SplitLines(rl_file)
        /\ rl_size = Len(SplitLines(rl_file))
        /\ ~rl_oob

\* The space-separated tokens of a line.
RECURSIVE TokensOf(_)
TokensOf(s) ==
    IF s = <<>> THEN <<>>
    ELSE IF s[1] = SP THEN TokensOf(Tail(s))
    ELSE LET sps == {k \in 1..Len(s) : s[k] = SP}
             e == IF sps = {} THEN Len(s) + 1
                  ELSE CHOOSE x \in sps : \A y \in sps : x <= y
         IN <<SubSeq(s, 1, e - 1)>> \o TokensOf(SubSeq(s, e, Len(s)))

\* C6, as claimed: parse_test_cases never reads a token the line does not
\* have, and returns NULL or one triple per line, in order, built from the
\* line's first three tokens.
C6_ParseNeverReadsMissingToken ==
    /\ ~pt_nullRead
    /\ pt_pc # "crashed"
    /\ (pt_pc = "returned" /\ pt_ret # Null) =>
          /\ Len(Deref(pt_ret)) = Len(pt_lines)
          /\ \A k \in 1..Len(pt_lines) :
               LET tk == TokensOf(pt_lines[k])
               IN /\ Len(tk) >= 3
                  /\ Deref(pt_ret)[k] = [regex_idx |-> Atoi(tk[1]), str |-> tk[2],
                                         isMatch |-> Atoi(tk[3])]

\* C8, as claimed: when main returns, every successfully compiled slot has
\* been passed to regfree exactly once, no other slot has, and every block
\* main allocated has been freed exactly once.
C8_EverythingReleasedOnce ==
    (pc = "done") =>
        /\ \A k \in CompiledSlots : Count(regfreeLog, k) = 1
        /\ Range(regfreeLog) \subseteq CompiledSlots
        /\ \A b \in allocd : Count(freeLog, b) = 1
        /\ Range(freeLog) \subseteq allocd

\* C9, as claimed: every triple the execute loop runs has
\* 0 <= regex_idx < p_size, whatever the test file holds.
C9_IndexInRange ==
    (pc = "exec") =>
        \A k \in 1..t_size :
            0 <= Deref(tests)[k].regex_idx /\ Deref(tests)[k].regex_idx < p_size

\* C10: main returns 0 exactly when both files were read, every pattern
\* compiled, the triples were parsed and the execute loop ran over all
\* t_size of them, and 1 otherwise; the reports' Success or Failed plays no
\* part.
C10_ExitStatus ==
    (pc = "done") =>
        /\ retcode \in {0, 1}
        /\ retcode = 0 <=>
              /\ patterns # Null /\ test_lines # Null /\ regexs # Null
              /\ ~regcompFailed /\ CompiledSlots = 0..(p_size - 1)
              /\ tests # Null
              /\ Len(reports) = t_size

\* C10: main returns 0 although both of its reports are Failed.
C10_Witness ==
    /\ pc = "done" /\ retcode = 0 /\ t_size >= 2 /\ ~ubSeen
    /\ \A k \in 1..Len(reports) : reports[k].state = "Failed"
====
